---------------------------- MODULE Spec2Model ----------------------------
(***************************************************************************)
(* Continuous-time Markov cohort simulation of HIV progression with        *)
(* economic evaluation (MarkovModelClasses.py, ParameterClasses.py,        *)
(* ct_hiv_model_econ_eval/param_classes.py).                               *)
(*                                                                         *)
(* Python lists are functions over 0..n-1, so that indices are the         *)
(* source's.  Times are naturals; a holding time is a positive natural.    *)
(* An optional value (None or a number) is the empty or the one-element    *)
(* sequence.                                                               *)
(***************************************************************************)
EXTENDS Integers, Sequences, FiniteSets, TLC

VARIABLES
    params,          \* the Parameters object shared by the patients
    id,              \* Cohort.id
    popSize,         \* Cohort.popSize
    sim_length,      \* the argument of Cohort.simulate
    patients,        \* Cohort.patients (0-indexed list of Patient objects)
    cohortOutcomes,  \* Cohort.cohortOutcomes
    pc,              \* position in Cohort.simulate
    builderIn,       \* arguments handed to the combo builders
    builderOut       \* what the two combo builders returned

vars == <<params, id, popSize, sim_length, patients, cohortOutcomes, pc,
          builderIn, builderOut>>

-----------------------------------------------------------------------------
(* Bounds of the model *)

\* largest population size of a simulated cohort
MaxPop == 2
\* simulation length (horizon) of the simulation of one patient
MaxSimLength == 3
\* simulation length (horizon) of the simulation of a cohort
CohortSimLength == 2
\* largest rate in a rate matrix handed to the combo builders
MaxRate == 1
\* largest relative risk handed to the combo builders
MaxRR == 2
\* largest population of a list handed to extract_outcomes on its own
MaxExtract == 3
\* largest recorded time of a patient handed to extract_outcomes on its own
MaxTime == 5

-----------------------------------------------------------------------------
(* HealthStates, Therapies *)

CD4_200to500 == 0
CD4_200 == 1
AIDS == 2
HIV_DEATH == 3
NATUAL_DEATH == 4

HealthStates == {CD4_200to500, CD4_200, AIDS, HIV_DEATH, NATUAL_DEATH}

Therapies == {"MONO", "COMBO"}

None == <<>>
Some(x) == <<x>>

\* len() of a 0-indexed list
Len0(l) == Cardinality(DOMAIN l)
\* list.append on a 0-indexed list
Append0(l, x) == [i \in 0..Len0(l) |-> IF i < Len0(l) THEN l[i] ELSE x]
\* [x] * n
Repeat0(x, n) == [i \in 0..(n - 1) |-> x]

RECURSIVE SumTo(_, _)
\* sum of l[0..n-1]
SumTo(l, n) == IF n = 0 THEN 0 ELSE l[n - 1] + SumTo(l, n - 1)

-----------------------------------------------------------------------------
(* Input data (InputData.py / input_data.py): small values that stand for  *)
(* the costs, utilities and discount rate the parameter classes read.      *)

Zidovudine_COST == 1
Lamivudine_COST == 1
DISCOUNT == 0
ANNUAL_STATE_COST == [s \in HealthStates |->
    CASE s = CD4_200to500 -> 1 [] s = CD4_200 -> 2 [] s = AIDS -> 4 [] OTHER -> 0]
ANNUAL_STATE_UTILITY == [s \in HealthStates |->
    CASE s = CD4_200to500 -> 3 [] s = CD4_200 -> 2 [] s = AIDS -> 1 [] OTHER -> 0]

-----------------------------------------------------------------------------
(* Rate matrix builders *)

\* get_rate_matrix_mono / get_trans_rate_matrix: trans_rate_matrix is what
\* discrete_to_continuous returned (one row per HIV state, one column per
\* HIV state and HIV death); a background mortality column and two zero
\* rows are appended.
get_rate_matrix_mono(trans_rate_matrix, mortality_rate) ==
    LET withMort == [s \in DOMAIN trans_rate_matrix |->
                        Append0(trans_rate_matrix[s], mortality_rate)]
        zeros == Repeat0(0, Cardinality(HealthStates))
    IN  Append0(Append0(withMort, zeros), zeros)

\* ParameterClasses.get_rate_matrix_combo
get_rate_matrix_combo(rate_matrix_mono, combo_rr) ==
    [s \in DOMAIN rate_matrix_mono |->
        [next_s \in DOMAIN rate_matrix_mono[s] |->
            IF next_s \in (s + 1)..(Cardinality(HealthStates) - 1)
            THEN combo_rr * rate_matrix_mono[s][next_s]
            ELSE 0]]

\* param_classes.get_trans_rate_matrix_combo
get_trans_rate_matrix_combo(rate_matrix_mono, combo_rr) ==
    [s \in DOMAIN rate_matrix_mono |->
        [next_s \in DOMAIN rate_matrix_mono[s] |->
            IF next_s = Len0(rate_matrix_mono[s]) - 1
            THEN rate_matrix_mono[s][next_s]
            ELSE IF next_s \in (s + 1)..(Cardinality(HealthStates) - 2)
                 THEN combo_rr * rate_matrix_mono[s][next_s]
                 ELSE 0]]


-----------------------------------------------------------------------------
(* Parameters *)

\* ParametersFixed.__init__: data holds what InputData supplies, with
\* trans_rate_matrix the result of discrete_to_continuous on the
\* probability matrix and mortality_rate the background mortality rate.
ParametersFixed(therapy, data) ==
    [therapy |-> therapy,
     initialHealthState |-> CD4_200to500,
     annualTreatmentCost |->
        IF therapy = "MONO" THEN Zidovudine_COST
        ELSE Zidovudine_COST + Lamivudine_COST,
     rateMatrix |->
        IF therapy = "MONO"
        THEN get_rate_matrix_mono(data.trans_rate_matrix, data.mortality_rate)
        ELSE get_rate_matrix_combo(
                get_rate_matrix_mono(data.trans_rate_matrix, data.mortality_rate),
                data.TREATMENT_RR),
     annualStateCosts |-> ANNUAL_STATE_COST,
     annualStateUtilities |-> ANNUAL_STATE_UTILITY,
     discountRate |-> DISCOUNT]

-----------------------------------------------------------------------------
(* External collaborators *)

\* Econ.pv_continuous_payment: present value of a payment flowing at a
\* constant rate over discount_period = <<t0, t1>>; the branch for a zero
\* discount rate (the only one the input data of this model selects).
pv_continuous_payment(payment, discount_rate, discount_period) ==
    payment * (discount_period[2] - discount_period[1])

\* sum of the rates out of state i (the diagonal is not a rate)
out_rate(row, i) ==
    SumTo([j \in DOMAIN row |-> IF j = i THEN 0 ELSE row[j]], Len0(row))

\* the n-th smallest element of S, n counted from 0
NthOf(S, n) == CHOOSE j \in S : Cardinality({x \in S : x < j}) = n

\* what one use of a patient's random number generator can yield: a holding
\* time and the rank of the next state among the states with a positive rate
Draws(horizon) ==
    [dt : 1..(horizon + 1), pick : 0..(Cardinality(HealthStates) - 2)]

\* Markov.Gillespie.get_next_state: (None, current state) when no rate
\* leaves the current state, else the holding time and the next state the
\* generator's draw selects among the states with a positive rate.
get_next_state(rate_matrix, current_state_index, draw) ==
    LET row == rate_matrix[current_state_index]
        targets == {j \in DOMAIN row : j # current_state_index /\ row[j] > 0}
    IN  IF out_rate(row, current_state_index) = 0
        THEN [dt |-> None, i |-> current_state_index]
        ELSE [dt |-> Some(draw.dt),
              i |-> NthOf(targets, draw.pick % Cardinality(targets))]

-----------------------------------------------------------------------------
(* Patient, PatientStateMonitor, PatientCostUtilityMonitor *)

\* Patient.__init__ with PatientStateMonitor.__init__ and
\* PatientCostUtilityMonitor.__init__; id is also the seed of the patient's
\* random number generator; t and if_stop are the locals of
\* Patient.simulate, branch the branch its last iteration took, transitions
\* the number of iterations that took the else branch; calls lists the
\* arguments of the calls of PatientCostUtilityMonitor.update.
Patient(seed, parameters) ==
    [id |-> seed,
     currentState |-> parameters.initialHealthState,
     survivalTime |-> None,
     timeToAIDS |-> None,
     ifDevelopedAIDS |-> FALSE,
     tLastRecorded |-> 0,
     totalDiscountedCost |-> 0,
     totalDiscountedUtility |-> 0,
     calls |-> <<>>,
     t |-> 0,
     if_stop |-> FALSE,
     branch |-> "none",
     transitions |-> 0]

\* PatientCostUtilityMonitor.update
PatientCostUtilityMonitor_update(p, parameters, time, current_state, next_state) ==
    LET cost == parameters.annualStateCosts[current_state]
                    + parameters.annualTreatmentCost
        utility == parameters.annualStateUtilities[current_state]
        discounted_cost ==
            pv_continuous_payment(cost, parameters.discountRate,
                                  <<p.tLastRecorded, time>>)
        discounted_utility ==
            pv_continuous_payment(utility, parameters.discountRate,
                                  <<p.tLastRecorded, time>>)
    IN  [p EXCEPT !.totalDiscountedCost = @ + discounted_cost,
                  !.totalDiscountedUtility = @ + discounted_utility,
                  !.tLastRecorded = time,
                  !.calls = Append(@, [from |-> p.tLastRecorded,
                                       time |-> time,
                                       current_state |-> current_state,
                                       next_state |-> next_state])]

\* bool() of an Enum member: every member is true, whatever its value
Truthy(member) == member \in HealthStates

\* the condition of the survival time update:
\* new_state == HIV_DEATH or NATUAL_DEATH
IsDeathUpdate(new_state) ==
    (new_state = HIV_DEATH) \/ Truthy(NATUAL_DEATH)

\* PatientStateMonitor.update with the current health state updated before
\* the cost and utility
PatientStateMonitor_update_early(p, parameters, time, new_state) ==
    LET p1 == IF IsDeathUpdate(new_state)
              THEN [p EXCEPT !.survivalTime = Some(time)]
              ELSE p
        p2 == IF p1.currentState # AIDS /\ new_state = AIDS
              THEN [p1 EXCEPT !.ifDevelopedAIDS = TRUE,
                              !.timeToAIDS = Some(time)]
              ELSE p1
        p3 == [p2 EXCEPT !.currentState = new_state]
    IN  PatientCostUtilityMonitor_update(p3, parameters, time,
                                         p3.currentState, new_state)

\* PatientStateMonitor.update
PatientStateMonitor_update(p, parameters, time, new_state) ==
    LET p1 == IF IsDeathUpdate(new_state)
              THEN [p EXCEPT !.survivalTime = Some(time)]
              ELSE p
        p2 == IF p1.currentState # AIDS /\ new_state = AIDS
              THEN [p1 EXCEPT !.ifDevelopedAIDS = TRUE,
                              !.timeToAIDS = Some(time)]
              ELSE p1
        p3 == PatientCostUtilityMonitor_update(p2, parameters, time,
                                               p2.currentState, new_state)
    IN  [p3 EXCEPT !.currentState = new_state]

\* Patient.simulate with the branch "dt is None" also accounting up to the
\* simulation length
simulate_absorbed_accounted(p) ==
    [PatientCostUtilityMonitor_update(p, params, sim_length,
                                      p.currentState, p.currentState)
        EXCEPT !.if_stop = TRUE, !.branch = "absorbed"]

\* Patient.simulate with the branch "dt is None" not setting if_stop
simulate_absorbed_running(p) ==
    [p EXCEPT !.branch = "absorbed"]

\* Patient.simulate, the branch "dt is None"
simulate_absorbed(p) ==
    [p EXCEPT !.if_stop = TRUE, !.branch = "absorbed"]

\* Patient.simulate, the branch "dt + t > sim_length"
simulate_censored(p, parameters, horizon) ==
    [PatientCostUtilityMonitor_update(p, parameters, horizon,
                                      p.currentState, p.currentState)
        EXCEPT !.if_stop = TRUE, !.branch = "censored"]

\* Patient.simulate, the else branch
simulate_transition(p, parameters, dt, new_state_index) ==
    LET q == [p EXCEPT !.t = @ + dt, !.branch = "transition",
                       !.transitions = @ + 1]
    IN  PatientStateMonitor_update(q, parameters, q.t, new_state_index)

-----------------------------------------------------------------------------
(* Cohort, CohortOutcomes *)

\* Path.PrevalencePathBatchUpdate: the step function that starts at
\* initial_size at time 0 and, at each time of change in ascending order,
\* moves by the increments recorded at that time (ties move together), as
\* the sequence of its <<time, size>> points.
PrevalencePathBatchUpdate(initial_size, times_of_changes, increments) ==
    LET times == {times_of_changes[k] : k \in DOMAIN times_of_changes}
        sizeAt(time) ==
            initial_size
            + SumTo([k \in DOMAIN times_of_changes |->
                        IF times_of_changes[k] <= time THEN increments[k] ELSE 0],
                    Len0(times_of_changes))
    IN  <<<<0, initial_size>>>>
        \o [n \in 1..Cardinality(times) |->
                <<NthOf(times, n - 1), sizeAt(NthOf(times, n - 1))>>]

\* CohortOutcomes.__init__
CohortOutcomes ==
    [survivalTimes |-> <<>>,
     timesToAIDS |-> <<>>,
     costs |-> <<>>,
     utilities |-> <<>>,
     nLivingPatients |-> None]

\* the body of the loop of extract_outcomes recording the cost and utility
\* only of a patient with a survival time
record_patient_if_died(o, patient) ==
    IF patient.survivalTime # None
    THEN [o EXCEPT !.survivalTimes = Append0(@, patient.survivalTime[1]),
                   !.costs = Append0(@, patient.totalDiscountedCost),
                   !.utilities = Append0(@, patient.totalDiscountedUtility)]
    ELSE o

\* CohortOutcomes.extract_outcomes, the body of the loop over the patients
record_patient(o, patient) ==
    LET o1 == IF patient.survivalTime # None
              THEN [o EXCEPT !.survivalTimes =
                        Append0(@, patient.survivalTime[1])]
              ELSE o
        o2 == IF patient.ifDevelopedAIDS
              THEN [o1 EXCEPT !.timesToAIDS =
                        Append0(@, patient.timeToAIDS[1])]
              ELSE o1
    IN  [o2 EXCEPT !.costs = Append0(@, patient.totalDiscountedCost),
                   !.utilities = Append0(@, patient.totalDiscountedUtility)]

RECURSIVE record_outcomes(_, _, _)
\* CohortOutcomes.extract_outcomes, the loop over the first n patients
record_outcomes(outcomes, simulated_patients, n) ==
    IF n = 0 THEN outcomes
    ELSE record_patient(
            record_outcomes(outcomes, simulated_patients, n - 1),
            simulated_patients[n - 1])

\* the initial size of the survival curve taken as the number of patients
\* without a survival time
initial_size_living(simulated_patients) ==
    Cardinality({i \in DOMAIN simulated_patients :
                    simulated_patients[i].survivalTime = None})

\* the initial_size handed to the survival curve
initial_size(simulated_patients) == Len0(simulated_patients)

\* CohortOutcomes.extract_outcomes
extract_outcomes(outcomes, simulated_patients) ==
    LET o == record_outcomes(outcomes, simulated_patients,
                             Len0(simulated_patients))
    IN  [o EXCEPT !.nLivingPatients =
            Some(PrevalencePathBatchUpdate(
                    initial_size(simulated_patients),
                    o.survivalTimes,
                    Repeat0(-1, Len0(o.survivalTimes))))]

\* the seed of patient i of the cohort
patient_id(cohort_id, pop_size, i) == cohort_id * pop_size + i

\* Cohort.simulate, the loop that populates the cohort
populate(cohort_id, pop_size, parameters) ==
    [i \in 0..(pop_size - 1) |->
        Patient(patient_id(cohort_id, pop_size, i), parameters)]

\* the patient Cohort.simulate is simulating: the first not yet stopped
Unstopped == {i \in DOMAIN patients : ~patients[i].if_stop}
current == NthOf(Unstopped, 0)

-----------------------------------------------------------------------------
(* Actions *)

\* Cohort.simulate: populate the cohort
Populate ==
    /\ pc = "new"
    /\ patients' = populate(id, popSize, params)
    /\ pc' = "simulate"
    /\ UNCHANGED <<params, id, popSize, sim_length, cohortOutcomes,
                   builderIn, builderOut>>

\* one iteration of the loop of Patient.simulate: the state is absorbing
SimulateAbsorbed ==
    /\ pc = "simulate"
    /\ Unstopped # {}
    /\ LET p == patients[current]
           nx == get_next_state(params.rateMatrix, p.currentState,
                                [dt |-> 1, pick |-> 0])
       IN  /\ nx.dt = None
           /\ patients' = [patients EXCEPT ![current] = simulate_absorbed(p)]
    /\ UNCHANGED <<params, id, popSize, sim_length, cohortOutcomes, pc,
                   builderIn, builderOut>>

\* one iteration of the loop of Patient.simulate: the next event falls
\* beyond the simulation length
SimulateCensored ==
    /\ pc = "simulate"
    /\ Unstopped # {}
    /\ LET p == patients[current]
       IN  \E draw \in Draws(sim_length) :
             LET nx == get_next_state(params.rateMatrix, p.currentState, draw)
             IN  /\ nx.dt # None
                 /\ nx.dt[1] + p.t > sim_length
                 /\ patients' = [patients EXCEPT ![current] =
                        simulate_censored(p,
                                          params, sim_length)]
    /\ UNCHANGED <<params, id, popSize, sim_length, cohortOutcomes, pc,
                   builderIn, builderOut>>

\* one iteration of the loop of Patient.simulate: the next event happens
SimulateTransition ==
    /\ pc = "simulate"
    /\ Unstopped # {}
    /\ LET p == patients[current]
       IN  \E draw \in Draws(sim_length) :
             LET nx == get_next_state(params.rateMatrix, p.currentState, draw)
             IN  /\ nx.dt # None
                 /\ ~(nx.dt[1] + p.t > sim_length)
                 /\ patients' = [patients EXCEPT ![current] =
                        simulate_transition(p,
                                            params, nx.dt[1], nx.i)]
    /\ UNCHANGED <<params, id, popSize, sim_length, cohortOutcomes, pc,
                   builderIn, builderOut>>

\* Cohort.simulate: store the outputs of the simulation
ExtractOutcomes ==
    /\ pc = "simulate"
    /\ Unstopped = {}
    /\ cohortOutcomes' = extract_outcomes(cohortOutcomes, patients)
    /\ pc' = "extracted"
    /\ UNCHANGED <<params, id, popSize, sim_length, patients,
                   builderIn, builderOut>>

\* Cohort.simulate: clear the patients, and return
ClearPatients ==
    /\ pc = "extracted"
    /\ patients' = <<>>
    /\ pc' = "done"
    /\ UNCHANGED <<params, id, popSize, sim_length, cohortOutcomes,
                   builderIn, builderOut>>

-----------------------------------------------------------------------------
(* Specification of one cohort simulation *)

\* the results of discrete_to_continuous the model draws from: every rate
\* between two different states is zero or positive
TransRateMatrices ==
    {m \in [0..2 -> [0..3 -> 0..1]] :
        \A s \in 0..2 : \A j \in 0..3 :
            j = s => m[s][j] = 0}

InputData ==
    [trans_rate_matrix : TransRateMatrices,
     mortality_rate : 0..1,
     TREATMENT_RR : {2}]

\* a cohort of one patient, with any rate matrix
Init ==
    /\ \E therapy \in Therapies : \E data \in InputData :
            params = ParametersFixed(therapy, data)
    /\ id = 1
    /\ popSize = 1
    /\ sim_length = MaxSimLength
    /\ patients = <<>>
    /\ cohortOutcomes = CohortOutcomes
    /\ pc = "new"
    /\ builderIn = None
    /\ builderOut = None

Next ==
    \/ Populate
    \/ SimulateAbsorbed
    \/ SimulateCensored
    \/ SimulateTransition
    \/ ExtractOutcomes
    \/ ClearPatients

Spec == Init /\ [][Next]_vars

\* a cohort of one patient, with any rate matrix whose positive rates all
\* lead to a later state; the simulation keeps taking steps
ForwardInputData ==
    {data \in InputData :
        \A s \in 0..2 : \A j \in 0..3 :
            j <= s => data.trans_rate_matrix[s][j] = 0}

FairInit ==
    /\ \E therapy \in Therapies : \E data \in ForwardInputData :
            params = ParametersFixed(therapy, data)
    /\ id = 1
    /\ popSize = 1
    /\ sim_length = MaxSimLength
    /\ patients = <<>>
    /\ cohortOutcomes = CohortOutcomes
    /\ pc = "new"
    /\ builderIn = None
    /\ builderOut = None

FairSpec == FairInit /\ [][Next]_vars /\ WF_vars(Next)

-----------------------------------------------------------------------------
(* Specification of the simulation of a cohort of several patients *)

\* discrete_to_continuous's result with every forward rate positive
ForwardRates == [s \in 0..2 |-> [j \in 0..3 |-> IF j > s THEN 1 ELSE 0]]

CohortInputData ==
    [trans_rate_matrix : {ForwardRates},
     mortality_rate : 0..1,
     TREATMENT_RR : {2}]

CohortInit ==
    /\ \E therapy \in Therapies : \E data \in CohortInputData :
            params = ParametersFixed(therapy, data)
    /\ id = 1
    /\ popSize \in 0..MaxPop
    /\ sim_length = CohortSimLength
    /\ patients = <<>>
    /\ cohortOutcomes = CohortOutcomes
    /\ pc = "new"
    /\ builderIn = None
    /\ builderOut = None

CohortSpec == CohortInit /\ [][Next]_vars

-----------------------------------------------------------------------------
(* Specification of extract_outcomes on a list of simulated patients *)

\* a patient who moved to HIV death at time, and stopped there
DeadPatient(seed, parameters, time) ==
    simulate_absorbed(
        simulate_transition(Patient(seed, parameters), parameters,
                            time, HIV_DEATH))

\* a patient whose first event fell beyond the horizon
CensoredPatient(seed, parameters, horizon) ==
    simulate_censored(Patient(seed, parameters), parameters, horizon)

ExtractInit ==
    /\ params = ParametersFixed("MONO",
                    [trans_rate_matrix |-> ForwardRates,
                     mortality_rate |-> 1,
                     TREATMENT_RR |-> 2])
    /\ id = 0
    /\ popSize \in 0..MaxExtract
    /\ sim_length = MaxTime
    /\ \E fate \in [0..(popSize - 1) -> 0..MaxTime] :
            patients = [i \in 0..(popSize - 1) |->
                IF fate[i] = 0
                THEN CensoredPatient(patient_id(id, popSize, i), params, sim_length)
                ELSE DeadPatient(patient_id(id, popSize, i), params, fate[i])]
    /\ cohortOutcomes = CohortOutcomes
    /\ pc = "simulate"
    /\ builderIn = None
    /\ builderOut = None

ExtractNext ==
    \/ ExtractOutcomes
    \/ ClearPatients

ExtractSpec == ExtractInit /\ [][ExtractNext]_vars

-----------------------------------------------------------------------------
(* Specification of the combo builders on a mono rate matrix *)

\* both combo builders applied to the same arguments; rate_matrix_mono is
\* the argument after the calls (neither builder assigns into it)
BuildCombo ==
    /\ pc = "builders"
    /\ builderOut' =
        [matrix_combo |->
            get_rate_matrix_combo(builderIn.rate_matrix_mono, builderIn.combo_rr),
         trans_matrix_combo |->
            get_trans_rate_matrix_combo(builderIn.rate_matrix_mono,
                                        builderIn.combo_rr),
         rate_matrix_mono |-> builderIn.rate_matrix_mono]
    /\ pc' = "built"
    /\ UNCHANGED <<params, id, popSize, sim_length, patients, cohortOutcomes,
                   builderIn>>

BuilderInit ==
    /\ \E m \in [0..2 -> [0..3 -> 0..MaxRate]] : \E mortality_rate \in 0..MaxRate :
            /\ \A s \in 0..2 : m[s][s] = 0
            /\ \E rr \in 1..MaxRR :
                builderIn = [rate_matrix_mono |->
                                get_rate_matrix_mono(m, mortality_rate),
                             combo_rr |-> rr]
    /\ builderOut = None
    /\ pc = "builders"
    /\ params = None
    /\ id = 0
    /\ popSize = 0
    /\ sim_length = 0
    /\ patients = <<>>
    /\ cohortOutcomes = CohortOutcomes

BuilderNext == BuildCombo

BuilderSpec == BuilderInit /\ [][BuilderNext]_vars

-----------------------------------------------------------------------------
(* Properties of Patient.simulate *)

Deaths == {HIV_DEATH, NATUAL_DEATH}

\* the spec's invariant of a rate matrix: some rate leaves every non-death
\* state
WellFormed(rate_matrix) ==
    \A s \in HealthStates \ Deaths : out_rate(rate_matrix[s], s) > 0

\* C1, as stated: every patient that has stopped, absorbed in a terminal
\* state or censored, has had a final accounting call up to the simulation
\* length, so that its tLastRecorded equals sim_length.
C1_FinalAccountingAlways ==
    \A i \in DOMAIN patients :
        (/\ patients[i].if_stop
         /\ \/ patients[i].branch = "censored"
            \/ patients[i].currentState \in Deaths)
            => patients[i].tLastRecorded = sim_length

\* C1, amended: a patient stopped by censoring has had a final accounting
\* call up to sim_length at its current state; a patient stopped as absorbed
\* has had no accounting call beyond its transitions, and its tLastRecorded
\* is the time t of its last transition (0 without one).
C1_FinalAccountingOnlyCensored ==
    \A i \in DOMAIN patients :
        LET p == patients[i]
        IN  p.if_stop =>
              /\ p.branch \in {"absorbed", "censored"}
              /\ p.branch = "censored" =>
                    /\ p.tLastRecorded = sim_length
                    /\ Len(p.calls) = p.transitions + 1
                    /\ p.calls[Len(p.calls)].current_state = p.currentState
                    /\ p.calls[Len(p.calls)].time = sim_length
              /\ p.branch = "absorbed" =>
                    /\ p.tLastRecorded = p.t
                    /\ Len(p.calls) = p.transitions
                    /\ p.transitions > 0 => p.calls[Len(p.calls)].time = p.t

\* a patient absorbed in a death state before the simulation length, with no
\* accounting for the time after its death
C1_Witness ==
    \E i \in DOMAIN patients :
        /\ patients[i].if_stop
        /\ patients[i].branch = "absorbed"
        /\ patients[i].currentState \in Deaths
        /\ patients[i].tLastRecorded < sim_length

\* C2, as stated (for a well-formed rate matrix): survivalTime is set only
\* for a patient that reached a death state, so a patient censored in a
\* non-death state has none, and extract_outcomes records one survival time
\* per patient in a death state.
C2_SurvivalTimeOnlyAtDeath ==
    WellFormed(params.rateMatrix) =>
    /\ \A i \in DOMAIN patients :
            patients[i].survivalTime # None
                => patients[i].currentState \in Deaths
    /\ pc = "extracted" =>
            Len0(cohortOutcomes.survivalTimes)
                = Cardinality({i \in DOMAIN patients :
                                    patients[i].currentState \in Deaths})

\* C3, as stated (for a well-formed rate matrix): once set, timeToAIDS is
\* never changed by a later update, and ifDevelopedAIDS is true exactly when
\* timeToAIDS is set.
C3_TimeToAIDSSetOnce ==
    [][WellFormed(params.rateMatrix) =>
       \A i \in (DOMAIN patients) \cap (DOMAIN patients') :
            /\ patients[i].timeToAIDS # None
                    => patients'[i].timeToAIDS = patients[i].timeToAIDS
            /\ patients'[i].ifDevelopedAIDS
                    <=> patients'[i].timeToAIDS # None]_vars

\* C5, as stated: a patient never stops as absorbed in a non-death state, and
\* a cohort produces outcome collections only if no patient was sampled from
\* a non-death state without any outgoing rate.
C5_ZeroRateRowAborts ==
    /\ \A i \in DOMAIN patients :
            (patients[i].if_stop /\ patients[i].branch = "absorbed")
                => patients[i].currentState \in Deaths
    /\ pc = "extracted" =>
            \A i \in DOMAIN patients :
                LET state == patients[i].currentState
                IN  out_rate(params.rateMatrix[state], state) = 0
                        => state \in Deaths

\* the cost and the utility the accounting calls of patient p add up to
\* when each is charged at the rates of the state it names
RECURSIVE Charged(_, _, _)
Charged(calls, rates, n) ==
    IF n = 0 THEN 0
    ELSE rates[calls[n].current_state] * (calls[n].time - calls[n].from)
            + Charged(calls, rates, n - 1)

\* C9: every accounting call of a patient advances time within the simulation
\* length; the accounted intervals are contiguous from 0; each is charged at
\* the rates of the state occupied during it (the state entered by the
\* previous transition, the initial state for the first); there is one call
\* per transition, and one more exactly when the patient was censored.
C9_AccountingIntervals ==
    \A i \in DOMAIN patients :
        LET p == patients[i]
            n == Len(p.calls)
        IN  /\ \A k \in 1..n :
                  /\ p.calls[k].from <= p.calls[k].time
                  /\ p.calls[k].time <= sim_length
                  /\ p.calls[k].from = IF k = 1 THEN 0 ELSE p.calls[k - 1].time
                  /\ p.calls[k].current_state =
                        IF k = 1 THEN params.initialHealthState
                        ELSE p.calls[k - 1].next_state
            /\ n > 0 => /\ p.calls[n].next_state = p.currentState
                        /\ p.calls[n].time = p.tLastRecorded
            /\ n = 0 => p.tLastRecorded = 0
            /\ n = p.transitions + (IF p.branch = "censored" THEN 1 ELSE 0)
            /\ p.totalDiscountedCost =
                  Charged(p.calls,
                          [s \in HealthStates |->
                              params.annualStateCosts[s]
                                  + params.annualTreatmentCost], n)
            /\ p.totalDiscountedUtility =
                  Charged(p.calls, params.annualStateUtilities, n)

\* a censored patient with two transitions before the simulation length and
\* three accounted intervals, the last one ending at the simulation length
C9_Witness ==
    \E i \in DOMAIN patients :
        /\ patients[i].branch = "censored"
        /\ patients[i].transitions = 2
        /\ Len(patients[i].calls) = 3
        /\ patients[i].calls[3].from < sim_length
        /\ patients[i].calls[3].time = sim_length

\* the rate matrices of C10: every positive rate leads to a later state, and
\* no rate leaves a death state
UpperTriangular(rate_matrix) ==
    \A s \in DOMAIN rate_matrix : \A j \in DOMAIN rate_matrix[s] :
        rate_matrix[s][j] > 0 => (j > s /\ s \notin Deaths)

\* every patient of the cohort has been simulated to its end
AllStopped == pc \in {"simulate", "extracted", "done"} /\ Unstopped = {}

-----------------------------------------------------------------------------
(* Properties of the combo builders *)

\* what C4 states of a combo matrix built from rate_matrix_mono and rr
ComboAsSpecified(combo, rate_matrix_mono, rr) ==
    LET last == Cardinality(HealthStates) - 1
    IN  /\ DOMAIN combo = DOMAIN rate_matrix_mono
        /\ \A s \in DOMAIN combo :
            /\ DOMAIN combo[s] = DOMAIN rate_matrix_mono[s]
            /\ combo[s][last] = rate_matrix_mono[s][last]
            /\ s \in Deaths => combo[s] = rate_matrix_mono[s]
            /\ s \notin Deaths =>
                \A j \in (s + 1)..(last - 1) :
                    combo[s][j] = rr * rate_matrix_mono[s][j]

\* C4, as stated: both combo builders return a matrix that equals the mono
\* matrix in the background mortality column and in the rows of the death
\* states, and is rr times the mono matrix in the entries above the diagonal
\* of the other rows and columns; the mono matrix is not modified.
C4_ComboMatrix ==
    pc = "built" =>
        /\ ComboAsSpecified(builderOut.matrix_combo,
                            builderIn.rate_matrix_mono, builderIn.combo_rr)
        /\ ComboAsSpecified(builderOut.trans_matrix_combo,
                            builderIn.rate_matrix_mono, builderIn.combo_rr)
        /\ builderOut.rate_matrix_mono = builderIn.rate_matrix_mono

\* what C4 states, of get_trans_rate_matrix_combo alone
C4_TransComboMatrix ==
    pc = "built" =>
        /\ ComboAsSpecified(builderOut.trans_matrix_combo,
                            builderIn.rate_matrix_mono, builderIn.combo_rr)
        /\ builderOut.rate_matrix_mono = builderIn.rate_matrix_mono

-----------------------------------------------------------------------------
(* Properties of CohortOutcomes.extract_outcomes and Cohort.simulate *)

\* the survival curve of the cohort outcomes
Curve == cohortOutcomes.nLivingPatients[1]

\* the number of recorded survival times equal to time
DeathsAt(time) ==
    Cardinality({k \in DOMAIN cohortOutcomes.survivalTimes :
                    cohortOutcomes.survivalTimes[k] = time})

\* C6: the survival curve starts at <<0, number of patients>>, its times
\* ascend, each of its steps lowers the number alive by the number of survival
\* times recorded at its time (so every recorded time is a step, and ties
\* are one step), it never drops below 0, and it ends at the number of
\* patients less the number of survival times; survival times 2, 2, 5 of
\* three patients give <<0, 3>>, <<2, 1>>, <<5, 0>>.
C6_SurvivalCurve ==
    pc \in {"extracted", "done"} =>
        /\ cohortOutcomes.nLivingPatients # None
        /\ Curve[1] = <<0, popSize>>
        /\ \A n \in 2..Len(Curve) :
            /\ Curve[n][1] > Curve[n - 1][1]
            /\ Curve[n][2] = Curve[n - 1][2] - DeathsAt(Curve[n][1])
            /\ Curve[n][2] < Curve[n - 1][2]
            /\ Curve[n][2] >= 0
        /\ \A k \in DOMAIN cohortOutcomes.survivalTimes :
                \E n \in 2..Len(Curve) :
                    Curve[n][1] = cohortOutcomes.survivalTimes[k]
        /\ Curve[Len(Curve)][2] = popSize - Len0(cohortOutcomes.survivalTimes)
        /\ cohortOutcomes.survivalTimes = (0 :> 2 @@ 1 :> 2 @@ 2 :> 5)
                => (popSize = 3 => Curve = <<<<0, 3>>, <<2, 1>>, <<5, 0>>>>)

\* the outcomes of three patients who died at 2, 2 and 5
C6_Witness ==
    /\ pc = "extracted"
    /\ popSize = 3
    /\ cohortOutcomes.survivalTimes = (0 :> 2 @@ 1 :> 2 @@ 2 :> 5)
    /\ Curve = <<<<0, 3>>, <<2, 1>>, <<5, 0>>>>

\* C8: when extract_outcomes has run, costs and utilities hold one entry per
\* patient, in the order of the patients; when Cohort.simulate has returned,
\* they hold popSize entries, survivalTimes and timesToAIDS at most popSize,
\* and the list of patients is empty.
C8_OutcomeCollections ==
    /\ pc = "extracted" =>
        /\ Len0(patients) = popSize
        /\ DOMAIN cohortOutcomes.costs = DOMAIN patients
        /\ DOMAIN cohortOutcomes.utilities = DOMAIN patients
        /\ \A i \in DOMAIN patients :
            /\ patients[i].id = id * popSize + i
            /\ cohortOutcomes.costs[i] = patients[i].totalDiscountedCost
            /\ cohortOutcomes.utilities[i] = patients[i].totalDiscountedUtility
    /\ pc = "done" =>
        /\ Len0(cohortOutcomes.costs) = popSize
        /\ Len0(cohortOutcomes.utilities) = popSize
        /\ Len0(cohortOutcomes.survivalTimes) <= popSize
        /\ Len0(cohortOutcomes.timesToAIDS) <= popSize
        /\ patients = <<>>

\* a returned simulation of two patients, one with and one without a
\* survival time, none with a time to AIDS, and with different costs
C8_Witness ==
    /\ pc = "done"
    /\ popSize = 2
    /\ Len0(cohortOutcomes.survivalTimes) = 1
    /\ Len0(cohortOutcomes.timesToAIDS) = 0
    /\ Len0(cohortOutcomes.costs) = 2
    /\ cohortOutcomes.costs[0] # cohortOutcomes.costs[1]

=============================================================================
